---- MODULE Spec2Model ----
\* Model of src/src/server.js: the chat aggregation server. One Socket.IO hub,
\* one push source (the tmi.js client) and one pull source (a polled feed),
\* coordinating through four module-level variables.
EXTENDS Integers, Sequences, FiniteSets, Bags, TLC

\* ---------------------------------------------------------------- bounds
MaxClients == 2
MaxTimers == 2
MaxInFlight == 2
MaxItems == 2
MaxTime == 2
BatchSize == 2

\* The absent value of the four state variables (null in the source).
Null == 0

TwChannels == {1, 2}
YtChannels == {1, 2}
\* A pull channel has at most one live chat; its handle is the channel's number.
Feeds == YtChannels

VARIABLES
    twitchChannel,      \* server.js:31
    youtubeLiveChatId,  \* server.js:32
    youtubeInterval,    \* server.js:33
    lastYoutubeCheck,   \* server.js:34
    clientsCount,       \* io.engine.clientsCount: the sockets connected
    timers,             \* the intervals setInterval scheduled and nobody cleared
    timersMade,         \* how many intervals were ever scheduled
    connected,          \* the tmi.js client holds a connection
    joined,             \* the push channels the tmi.js client is in
    starts,             \* bag of 'start connection' handlers suspended at an await
    fetches,            \* bag of liveChatMessages.list calls in flight
    feed,               \* per feed, the publish times of its items, in feed order
    ended,              \* the feeds whose live chat is no longer available
    now,                \* the clock new Date() reads
    emitted,            \* what the last step passed to io.emit, in order
    lastOp,             \* the handler that ran in the last step, and its batch
    forwarded,          \* the pull items emitted as chat messages so far
    announced,          \* the feeds whose ending was announced to subscribers
    endedSeen           \* feeds reported ended since a start last resolved a feed

vars == <<twitchChannel, youtubeLiveChatId, youtubeInterval, lastYoutubeCheck,
          clientsCount, timers, timersMade, connected, joined, starts, fetches,
          feed, ended, now, emitted, lastOp, forwarded, announced, endedSeen>>

state == <<twitchChannel, youtubeLiveChatId, youtubeInterval, lastYoutubeCheck>>
ghost == <<forwarded, announced, endedSeen>>
world == <<feed, ended, now>>

\* ---------------------------------------------------------------- helpers
Op(name, f, k) == [op |-> name, feed |-> f, k |-> k]
Other == Op("other", Null, 0)

Bag1(r) == [x \in {r} |-> 1]
BagSize(B) == BagCardinality(B)

RECURSIVE SumLen(_)
SumLen(S) == IF S = {} THEN 0
             ELSE LET f == CHOOSE x \in S : TRUE IN Len(feed[f]) + SumLen(S \ {f})

ChatMessage(f, i) == [ev |-> "chat message", platform |-> "YouTube", feed |-> f, idx |-> i]
Notice(text, f) == [ev |-> "error message", platform |-> text, feed |-> f, idx |-> 0]

\* liveChatMessages.list with maxResults: the most recent BatchSize items of
\* the feed as it stood when it held k items, oldest first.
Window(f, k) ==
    LET lo == IF k > BatchSize THEN k - BatchSize + 1 ELSE 1
    IN [j \in 1..(k - lo + 1) |-> [feed |-> f, idx |-> lo + j - 1, at |-> feed[f][lo + j - 1]]]

\* server.js:100
FreshAtOrAfter(publishedAt, wm) == wm = Null \/ publishedAt >= wm
Fresh(publishedAt, wm) == wm = Null \/ publishedAt > wm

\* server.js:97-110: the items of the batch the forEach emits, in batch order.
Forwarded(batch, wm) == SelectSeq(batch, LAMBDA it : Fresh(it.at, wm))

\* server.js:96,112
WatermarkOfForwarded(batch, wm) ==
    IF Len(Forwarded(batch, wm)) > 0 THEN batch[Len(batch)].at ELSE wm
NextWatermark(batch, wm) ==
    IF Len(batch) > 0 THEN batch[Len(batch)].at ELSE wm

\* server.js:158
TeardownOnLastTwo(count) == count <= 1
TeardownNeeded(count) == count = 0

\* ---------------------------------------------------------------- initial state
Init ==
    /\ twitchChannel = Null
    /\ youtubeLiveChatId = Null
    /\ youtubeInterval = Null
    /\ lastYoutubeCheck = Null
    /\ clientsCount = 0
    /\ timers = {}
    /\ timersMade = 0
    /\ connected = FALSE
    /\ joined = {}
    /\ starts = EmptyBag
    /\ fetches = EmptyBag
    /\ feed = [f \in Feeds |-> <<>>]
    /\ ended = {}
    /\ now = 1
    /\ emitted = <<>>
    /\ lastOp = Other
    /\ forwarded = {}
    /\ announced = {}
    /\ endedSeen = {}

\* ---------------------------------------------------------------- the world
\* io.on('connection'): server.js:129
Connection ==
    /\ clientsCount < MaxClients
    /\ clientsCount' = clientsCount + 1
    /\ emitted' = <<>>
    /\ lastOp' = Other
    /\ UNCHANGED <<state, timers, timersMade, connected, joined, starts, fetches,
                   world, ghost>>

\* An item is published on a live feed, stamped with the current time.
Publish(f) ==
    /\ f \notin ended
    /\ SumLen(Feeds) < MaxItems
    /\ feed' = [feed EXCEPT ![f] = Append(@, now)]
    /\ emitted' = <<>>
    /\ lastOp' = Other
    /\ UNCHANGED <<state, clientsCount, timers, timersMade, connected, joined, starts,
                   fetches, ended, now, ghost>>

ClockTick ==
    /\ now < MaxTime
    /\ now' = now + 1
    /\ emitted' = <<>>
    /\ lastOp' = Other
    /\ UNCHANGED <<state, clientsCount, timers, timersMade, connected, joined, starts,
                   fetches, feed, ended, ghost>>

\* The live chat of a feed stops being available.
EndFeed(f) ==
    /\ f \notin ended
    /\ ended' = ended \cup {f}
    /\ emitted' = <<>>
    /\ lastOp' = Other
    /\ UNCHANGED <<state, clientsCount, timers, timersMade, connected, joined, starts,
                   fetches, feed, now, ghost>>

\* ---------------------------------------------------------------- push messages
TwitchChatMessage(c) == [ev |-> "chat message", platform |-> "Twitch", feed |-> c, idx |-> 0]

\* server.js:46
ForwardOwn(self) == FALSE
SkipOwn(self) == self

\* server.js:45-57: the tmi.js client delivers a message of a joined channel;
\* self says whether the connected identity wrote it.
twitchMessage(c, self) ==
    /\ c \in joined
    /\ emitted' = IF SkipOwn(self) THEN <<>> ELSE <<TwitchChatMessage(c)>>
    /\ lastOp' = Op("twitch", c, IF self THEN 1 ELSE 0)
    /\ UNCHANGED <<state, clientsCount, timers, timersMade, connected, joined, starts,
                   fetches, world, ghost>>

\* ---------------------------------------------------------------- start connection
\* server.js:132-146, up to the handler's first await.
startConnection(tw, yt) ==
    /\ clientsCount > 0
    /\ timersMade + BagSize(starts) < MaxTimers
    /\ emitted' = <<>>
    /\ lastOp' = Other
    /\ IF tw # Null
       THEN /\ twitchChannel' = tw
            /\ starts' = starts (+) Bag1([yt |-> yt, pc |-> "connect"])
            /\ UNCHANGED lastYoutubeCheck
       ELSE IF yt # Null
       THEN /\ lastYoutubeCheck' = now
            /\ starts' = starts (+) Bag1([yt |-> yt, pc |-> "resolve"])
            /\ UNCHANGED twitchChannel
       ELSE UNCHANGED <<twitchChannel, lastYoutubeCheck, starts>>
    /\ UNCHANGED <<youtubeLiveChatId, youtubeInterval, clientsCount, timers, timersMade,
                   connected, joined, fetches, world, ghost>>

\* server.js:138-146: twitchClient.connect() settles (its rejection is caught),
\* join is called with the current twitchChannel, then the pull part begins.
startConnectionJoinOrAbort(h, connectOk, joinOk) ==
    /\ h \in BagToSet(starts)
    /\ h.pc = "connect"
    /\ connected' = (connected \/ connectOk)
    /\ joined' = IF connected' /\ joinOk /\ twitchChannel # Null
                 THEN joined \cup {twitchChannel} ELSE joined
    /\ emitted' = <<>>
    /\ lastOp' = Op("join", h.yt, 0)
    /\ IF h.yt # Null /\ connected' /\ joinOk
       THEN /\ lastYoutubeCheck' = now
            /\ starts' = (starts (-) Bag1(h)) (+) Bag1([h EXCEPT !.pc = "resolve"])
       ELSE /\ starts' = starts (-) Bag1(h)
            /\ UNCHANGED lastYoutubeCheck
    /\ UNCHANGED <<twitchChannel, youtubeLiveChatId, youtubeInterval, clientsCount, timers,
                   timersMade, fetches, world, ghost>>

startConnectionJoin(h, connectOk, joinOk) ==
    /\ h \in BagToSet(starts)
    /\ h.pc = "connect"
    /\ connected' = (connected \/ connectOk)
    /\ joined' = IF connected' /\ joinOk /\ twitchChannel # Null
                 THEN joined \cup {twitchChannel} ELSE joined
    /\ emitted' = <<>>
    /\ lastOp' = Op("join", h.yt, 0)
    /\ IF h.yt # Null
       THEN /\ lastYoutubeCheck' = now
            /\ starts' = (starts (-) Bag1(h)) (+) Bag1([h EXCEPT !.pc = "resolve"])
       ELSE /\ starts' = starts (-) Bag1(h)
            /\ UNCHANGED lastYoutubeCheck
    /\ UNCHANGED <<twitchChannel, youtubeLiveChatId, youtubeInterval, clientsCount, timers,
                   timersMade, fetches, world, ghost>>

\* server.js:60-83 and 146-151: getLiveChatId settles with a live chat id, with
\* null (nothing live), or with null after a caught error and its notice.
startConnectionResolved(h, found, failed) ==
    /\ h \in BagToSet(starts)
    /\ h.pc = "resolve"
    /\ found \in {Null, h.yt}
    /\ found # Null => (found \notin ended /\ ~failed)
    /\ youtubeLiveChatId' = found
    /\ emitted' = IF failed THEN <<Notice("not found", h.yt)>> ELSE <<>>
    /\ IF found # Null
       THEN /\ timersMade' = timersMade + 1
            /\ timers' = timers \cup {timersMade'}
            /\ youtubeInterval' = timersMade'
            /\ endedSeen' = {}
       ELSE UNCHANGED <<timersMade, timers, youtubeInterval, endedSeen>>
    /\ starts' = starts (-) Bag1(h)
    /\ lastOp' = Op(IF found # Null THEN "attached"
                     ELSE IF failed THEN "resolveFailed" ELSE "notFound", h.yt, 0)
    /\ UNCHANGED <<twitchChannel, lastYoutubeCheck, clientsCount, connected, joined,
                   fetches, world, forwarded, announced>>

\* ---------------------------------------------------------------- polling
\* server.js:85-93: a timer fires; the guard, then the fetch is issued.
fetchYoutubeMessages(t) ==
    /\ t \in timers
    /\ emitted' = <<>>
    /\ IF youtubeLiveChatId = Null
       THEN /\ lastOp' = Other
            /\ UNCHANGED fetches
       ELSE /\ BagSize(fetches) < MaxInFlight
            /\ fetches' = fetches (+) Bag1([feed |-> youtubeLiveChatId,
                                            len |-> Len(feed[youtubeLiveChatId]),
                                            live |-> youtubeLiveChatId \notin ended])
            /\ lastOp' = Op("fetch", youtubeLiveChatId, 0)
    /\ UNCHANGED <<state, clientsCount, timers, timersMade, connected, joined, starts,
                   world, ghost>>

\* server.js:95-113: the fetch resolves with the feed as it stood at some moment
\* between the request and now (k items).
fetchResolved(r, k) ==
    /\ r \in BagToSet(fetches)
    /\ r.live
    /\ k \in r.len..Len(feed[r.feed])
    /\ LET batch == Window(r.feed, k)
           out == Forwarded(batch, lastYoutubeCheck)
           ids == {<<out[j].feed, out[j].idx>> : j \in 1..Len(out)}
       IN /\ emitted' = [j \in 1..Len(out) |-> ChatMessage(out[j].feed, out[j].idx)]
          /\ forwarded' = forwarded \cup ids
          /\ lastYoutubeCheck' = NextWatermark(batch, lastYoutubeCheck)
    /\ fetches' = fetches (-) Bag1(r)
    /\ lastOp' = Op("batch", r.feed, k)
    /\ UNCHANGED <<twitchChannel, youtubeLiveChatId, youtubeInterval, clientsCount, timers,
                   timersMade, connected, joined, starts, world, announced, endedSeen>>

\* server.js:115-123: the fetch rejects with 'The live chat is no longer available'.
fetchEndedKeepHandle(r) ==
    /\ r \in BagToSet(fetches)
    /\ r.feed \in ended
    /\ timers' = timers \ {youtubeInterval}
    /\ UNCHANGED youtubeLiveChatId
    /\ emitted' = <<Notice("ended", r.feed)>>
    /\ announced' = announced \cup {r.feed}
    /\ endedSeen' = endedSeen \cup {r.feed}
    /\ fetches' = fetches (-) Bag1(r)
    /\ lastOp' = Op("feedEnded", r.feed, 0)
    /\ UNCHANGED <<twitchChannel, youtubeInterval, lastYoutubeCheck, clientsCount,
                   timersMade, connected, joined, starts, world, forwarded>>

fetchEnded(r) ==
    /\ r \in BagToSet(fetches)
    /\ r.feed \in ended
    /\ timers' = timers \ {youtubeInterval}
    /\ youtubeLiveChatId' = Null
    /\ emitted' = <<Notice("ended", r.feed)>>
    /\ announced' = announced \cup {r.feed}
    /\ endedSeen' = endedSeen \cup {r.feed}
    /\ fetches' = fetches (-) Bag1(r)
    /\ lastOp' = Op("feedEnded", r.feed, 0)
    /\ UNCHANGED <<twitchChannel, youtubeInterval, lastYoutubeCheck, clientsCount,
                   timersMade, connected, joined, starts, world, forwarded>>

\* server.js:115-124: the fetch rejects with any other error, which is logged.
fetchFailedStopsPolling(r) ==
    /\ r \in BagToSet(fetches)
    /\ fetches' = fetches (-) Bag1(r)
    /\ timers' = timers \ {youtubeInterval}
    /\ youtubeLiveChatId' = Null
    /\ emitted' = <<>>
    /\ lastOp' = Op("fetchFailed", r.feed, 0)
    /\ UNCHANGED <<twitchChannel, youtubeInterval, lastYoutubeCheck, clientsCount,
                   timersMade, connected, joined, starts, world, ghost>>

fetchFailed(r) ==
    /\ r \in BagToSet(fetches)
    /\ fetches' = fetches (-) Bag1(r)
    /\ emitted' = <<>>
    /\ lastOp' = Op("fetchFailed", r.feed, 0)
    /\ UNCHANGED <<state, clientsCount, timers, timersMade, connected, joined, starts,
                   world, ghost>>

\* ---------------------------------------------------------------- disconnect
\* server.js:155-171
disconnect ==
    /\ clientsCount > 0
    /\ clientsCount' = clientsCount - 1
    /\ emitted' = <<>>
    /\ lastOp' = Op("disconnect", Null, 0)
    /\ IF TeardownNeeded(clientsCount')
       THEN /\ IF twitchChannel # Null
               THEN /\ joined' = joined \ {twitchChannel}
                    /\ twitchChannel' = Null
               ELSE UNCHANGED <<joined, twitchChannel>>
            /\ IF youtubeInterval # Null
               THEN /\ timers' = timers \ {youtubeInterval}
                    /\ youtubeInterval' = Null
                    /\ youtubeLiveChatId' = Null
               ELSE UNCHANGED <<timers, youtubeInterval, youtubeLiveChatId>>
       ELSE UNCHANGED <<joined, twitchChannel, timers, youtubeInterval, youtubeLiveChatId>>
    /\ UNCHANGED <<lastYoutubeCheck, timersMade, connected, starts, fetches, world, ghost>>

\* ---------------------------------------------------------------- specification

Next ==
    \/ Connection
    \/ \E f \in Feeds : Publish(f)
    \/ ClockTick
    \/ \E f \in Feeds : EndFeed(f)
    \/ \E tw \in TwChannels \cup {Null}, yt \in YtChannels \cup {Null} : startConnection(tw, yt)
    \/ \E c \in TwChannels, self \in BOOLEAN : twitchMessage(c, self)
    \/ \E h \in BagToSet(starts), a \in BOOLEAN, b \in BOOLEAN : startConnectionJoin(h, a, b)
    \/ \E h \in BagToSet(starts) : \E f \in {Null, h.yt}, x \in BOOLEAN : startConnectionResolved(h, f, x)
    \/ \E t \in timers : fetchYoutubeMessages(t)
    \/ \E r \in BagToSet(fetches) : \E k \in r.len..Len(feed[r.feed]) : fetchResolved(r, k)
    \/ \E r \in BagToSet(fetches) : fetchEnded(r)
    \/ \E r \in BagToSet(fetches) : fetchFailed(r)
    \/ disconnect

Spec == Init /\ [][Next]_vars

\* The pull connector alone: one subscriber at a time, and every start request
\* names pull channel 1 and no push channel. The push part of a start handler
\* touches no pull state and only delays the pull part, and the pull code reads
\* the subscriber count only to compare it with zero (server.js:158).
OneChannel == {1}

FirstConnection == clientsCount = 0 /\ Connection

NextPull ==
    \/ FirstConnection
    \/ \E f \in OneChannel : Publish(f)
    \/ ClockTick
    \/ \E f \in OneChannel : EndFeed(f)
    \/ \E yt \in OneChannel : startConnection(Null, yt)
    \/ \E h \in BagToSet(starts) : \E f \in {Null, h.yt}, x \in BOOLEAN : startConnectionResolved(h, f, x)
    \/ \E t \in timers : fetchYoutubeMessages(t)
    \/ \E r \in BagToSet(fetches) : \E k \in r.len..Len(feed[r.feed]) : fetchResolved(r, k)
    \/ \E r \in BagToSet(fetches) : fetchEnded(r)
    \/ \E r \in BagToSet(fetches) : fetchFailed(r)
    \/ disconnect

SpecPull == Init /\ [][NextPull]_vars

\* The session's life cycle: any number of subscribers and every shape of
\* start request on both push channels and pull channel 1, whose feed may end
\* but carries no items.
NextSession ==
    \/ Connection
    \/ ClockTick
    \/ \E f \in OneChannel : EndFeed(f)
    \/ \E tw \in TwChannels \cup {Null}, yt \in OneChannel \cup {Null} : startConnection(tw, yt)
    \/ \E c \in TwChannels, self \in BOOLEAN : twitchMessage(c, self)
    \/ \E h \in BagToSet(starts), a \in BOOLEAN, b \in BOOLEAN : startConnectionJoin(h, a, b)
    \/ \E h \in BagToSet(starts) : \E f \in {Null, h.yt}, x \in BOOLEAN : startConnectionResolved(h, f, x)
    \/ \E t \in timers : fetchYoutubeMessages(t)
    \/ \E r \in BagToSet(fetches) : \E k \in r.len..Len(feed[r.feed]) : fetchResolved(r, k)
    \/ \E r \in BagToSet(fetches) : fetchEnded(r)
    \/ \E r \in BagToSet(fetches) : fetchFailed(r)
    \/ disconnect

SpecSession == Init /\ [][NextSession]_vars

\* The pull connector over both pull channels: one subscriber at a time, start
\* requests naming either pull channel and no push channel, so that the session
\* can leave one feed and attach the other while fetches are in flight.
NextFeeds ==
    \/ FirstConnection
    \/ \E f \in Feeds : Publish(f)
    \/ ClockTick
    \/ \E f \in Feeds : EndFeed(f)
    \/ \E yt \in YtChannels : startConnection(Null, yt)
    \/ \E h \in BagToSet(starts) : \E f \in {Null, h.yt}, x \in BOOLEAN : startConnectionResolved(h, f, x)
    \/ \E t \in timers : fetchYoutubeMessages(t)
    \/ \E r \in BagToSet(fetches) : \E k \in r.len..Len(feed[r.feed]) : fetchResolved(r, k)
    \/ \E r \in BagToSet(fetches) : fetchEnded(r)
    \/ \E r \in BagToSet(fetches) : fetchFailed(r)
    \/ disconnect

SpecFeeds == Init /\ [][NextFeeds]_vars

\* One attachment of pull channel 1 and what is published during it: the start
\* request arrives at the first clock reading, and items are published only
\* while the feed is attached and the clock has advanced since.
NextAttached ==
    \/ FirstConnection
    \/ \E f \in OneChannel : now > 1 /\ youtubeLiveChatId = f /\ Publish(f)
    \/ ClockTick
    \/ \E f \in OneChannel : EndFeed(f)
    \/ \E yt \in OneChannel : now = 1 /\ startConnection(Null, yt)
    \/ \E h \in BagToSet(starts) : \E f \in {Null, h.yt}, x \in BOOLEAN : startConnectionResolved(h, f, x)
    \/ \E t \in timers : fetchYoutubeMessages(t)
    \/ \E r \in BagToSet(fetches) : \E k \in r.len..Len(feed[r.feed]) : fetchResolved(r, k)
    \/ \E r \in BagToSet(fetches) : fetchEnded(r)
    \/ \E r \in BagToSet(fetches) : fetchFailed(r)
    \/ disconnect

SpecAttached == Init /\ [][NextAttached]_vars

\* ---------------------------------------------------------------- claims
\* The batch the last step processed, and the publish time of an emitted item.
LastBatch == Window(lastOp.feed, lastOp.k)
PublishedAt(e) == feed[e.feed][e.idx]
ItemIds(evs) == [j \in 1..Len(evs) |-> <<evs[j].feed, evs[j].idx>>]

\* The items of a batch newer than w, oldest first: what one poll is to forward.
RECURSIVE NewerThan(_, _)
NewerThan(batch, w) ==
    IF batch = <<>> THEN <<>>
    ELSE (IF Head(batch).at > w THEN <<<<Head(batch).feed, Head(batch).idx>>>> ELSE <<>>)
         \o NewerThan(Tail(batch), w)

\* C1: across polling cycles on one attached pull feed, overlapping fetches
\* included, no pull item is emitted as a chat message more than once.
C1_NoRedelivery ==
    [][lastOp'.op = "batch" =>
        \A j \in 1..Len(emitted') : ItemIds(emitted')[j] \notin forwarded]_vars

\* C2: every item a poll forwards has a publish time strictly greater than the
\* watermark as it stood when that poll's batch began to be processed.
C2_ForwardedOnlyIfNewer ==
    [][lastOp'.op = "batch" =>
        \A j \in 1..Len(emitted') :
            /\ emitted'[j].ev = "chat message"
            /\ lastYoutubeCheck # Null
            /\ PublishedAt(emitted'[j]) > lastYoutubeCheck]_vars

\* A poll forwarded part of its batch and filtered the rest.
C2_Witness ==
    /\ lastOp.op = "batch"
    /\ Len(emitted) > 0
    /\ Len(emitted) < Len(LastBatch)

\* C3: no step lowers the watermark once it is set.
C3_WatermarkMonotone ==
    [][lastYoutubeCheck # Null => lastYoutubeCheck' >= lastYoutubeCheck]_vars

\* C4: once a fetch reports the feed ended, the pull handle is absent and the
\* interval the session references is no longer scheduled; and no fetch is
\* issued on a feed reported ended until a start request resolves a feed again.
C4_FeedEndedStopsPolling ==
    /\ lastOp.op = "feedEnded" =>
           (youtubeLiveChatId = Null /\ youtubeInterval \notin timers)
    /\ lastOp.op = "fetch" => youtubeLiveChatId \notin endedSeen

\* A feed was reported ended while another interval is still scheduled, and
\* that interval has ticked since.
C4_Witness ==
    /\ endedSeen # {}
    /\ timers # {}
    /\ youtubeLiveChatId = Null
    /\ lastOp.op = "other"
    /\ fetches = EmptyBag

\* C5: when the last subscriber disconnects with no start handler suspended,
\* no interval stays scheduled and no push channel stays joined.
C5_LastDisconnectStopsAll ==
    [][(clientsCount > 0 /\ clientsCount' = 0 /\ starts = EmptyBag) =>
        (timers' = {} /\ joined' = {})]_vars

\* C6: when the last subscriber disconnects (here with no start handler
\* suspended), the push handle, the pull handle and the watermark are all
\* absent afterwards.
C6_LastDisconnectResetsState ==
    [][(clientsCount > 0 /\ clientsCount' = 0 /\ starts = EmptyBag) =>
        (twitchChannel' = Null /\ youtubeLiveChatId' = Null /\ lastYoutubeCheck' = Null)]_vars

\* C7: a disconnect that leaves a subscriber connected changes neither handle,
\* nor the interval, the scheduled intervals, the joined channels or the watermark.
C7_OnlyLastDisconnectTearsDown ==
    [][(clientsCount' < clientsCount /\ clientsCount' > 0) =>
        UNCHANGED <<twitchChannel, youtubeLiveChatId, youtubeInterval,
                    lastYoutubeCheck, timers, joined>>]_vars

\* A subscriber left, another remains, and both connectors are still attached.
C7_Witness ==
    /\ lastOp.op = "disconnect"
    /\ clientsCount > 0
    /\ twitchChannel \in joined
    /\ youtubeLiveChatId # Null
    /\ youtubeInterval \in timers

\* C8: a start handler issues no join for a push channel that is joined
\* already, and leaves the handle and the watermark of a feed that is being
\* polled as they are.
C8_StartIsNoOpWhenAttached ==
    /\ [][lastOp'.op = "join" => twitchChannel \notin joined]_vars
    /\ [][(starts' # starts /\ youtubeLiveChatId # Null /\ youtubeInterval \in timers) =>
            UNCHANGED <<youtubeLiveChatId, lastYoutubeCheck>>]_vars

\* C9: one poll emits exactly the items of its batch newer than the watermark,
\* in batch order, and sets the watermark to the publish time of the last item
\* of the batch; an empty batch emits nothing and leaves the watermark.
C9_PollForwardsNewerAndAdvances ==
    [][lastOp'.op = "batch" =>
        LET batch == Window(lastOp'.feed, lastOp'.k)
        IN /\ lastYoutubeCheck # Null
           /\ ItemIds(emitted') = NewerThan(batch, lastYoutubeCheck)
           /\ \A j \in 1..Len(emitted') : emitted'[j].ev = "chat message"
           /\ lastYoutubeCheck' =
                  IF batch = <<>> THEN lastYoutubeCheck ELSE batch[Len(batch)].at]_vars

\* A poll whose whole batch was filtered moved the watermark to the batch's
\* last publish time, below the watermark it started from.
C9_Witness ==
    /\ lastOp.op = "batch"
    /\ LastBatch # <<>>
    /\ emitted = <<>>
    /\ lastYoutubeCheck = LastBatch[Len(LastBatch)].at
    /\ lastYoutubeCheck < now

\* C10: the ending of a feed is announced to subscribers once, not more.
C10_EndedNoticeOnce ==
    [][\A f \in Feeds : emitted' = <<Notice("ended", f)>> => f \notin announced]_vars

C12_FeedNotFoundNotice ==
    [][lastOp'.op = "notFound" =>
        /\ emitted' # <<>>
        /\ \A j \in 1..Len(emitted') : emitted'[j].ev = "error message"
        /\ youtubeLiveChatId' = Null
        /\ timers' = timers]_vars

\* C13: a failure of one connector leaves the other alone. Whatever connect
\* and join did, a start handler that names a pull channel goes on to resolve
\* its feed, and a feed it resolves is attached and polled; and no outcome of
\* feed resolution or of a fetch changes the push handle, the connection or
\* the joined channels.
C13_ConnectorsIndependent ==
    /\ [][(lastOp'.op = "join" /\ lastOp'.feed # Null) =>
            /\ [yt |-> lastOp'.feed, pc |-> "resolve"] \in BagToSet(starts')
            /\ BagSize(starts') = BagSize(starts)]_vars
    /\ [][lastOp'.op = "attached" =>
            /\ youtubeLiveChatId' = lastOp'.feed
            /\ youtubeInterval' \in timers' \ timers]_vars
    /\ [][lastOp'.op \in {"notFound", "resolveFailed", "attached", "fetch", "batch",
                          "feedEnded", "fetchFailed"} =>
            UNCHANGED <<twitchChannel, connected, joined>>]_vars

\* The push connect failed, and the same session's pull feed was attached.
C13_Witness ==
    /\ lastOp.op = "attached"
    /\ twitchChannel # Null
    /\ ~connected
    /\ joined = {}
    /\ youtubeLiveChatId # Null
    /\ youtubeInterval \in timers

\* A pull feed ended while a push channel stays joined.
C13_WitnessPushSurvives ==
    /\ lastOp.op = "feedEnded"
    /\ twitchChannel \in joined

\* C14: a source handle is present only while its connector is attached. With
\* no start handler suspended, a push handle that is set names a joined
\* channel; and a pull handle that is set has its interval scheduled.
C14_HandleOnlyWhileAttached ==
    /\ (starts = EmptyBag /\ twitchChannel # Null) => twitchChannel \in joined
    /\ youtubeLiveChatId # Null => youtubeInterval \in timers

\* C15: an inbound push message written by the connected identity emits
\* nothing; every other inbound push message is emitted exactly once, as a
\* chat message of its channel.
C15_SelfNeverForwarded ==
    [][lastOp'.op = "twitch" =>
        emitted' = IF lastOp'.k = 1 THEN <<>> ELSE <<TwitchChatMessage(lastOp'.feed)>>]_vars

\* The connected identity's own message arrived on a joined channel.
C15_Witness ==
    /\ lastOp.op = "twitch"
    /\ lastOp.k = 1
    /\ lastOp.feed \in joined
    /\ emitted = <<>>

\* C17: at most one interval is scheduled at any time, and every scheduled
\* interval is the one the session's interval handle references.
C17_AtMostOneTimer ==
    /\ Cardinality(timers) <= 1
    /\ \A t \in timers : t = youtubeInterval

\* C18: when the last suspended start handler completes after every
\* subscriber has left, and nothing was joined or scheduled meanwhile, it
\* leaves no push channel joined, no pull handle set and no interval scheduled.
C18_IdleAfterLateStart ==
    [][(clientsCount = 0 /\ starts # EmptyBag /\ starts' = EmptyBag
        /\ joined = {} /\ timers = {}) =>
        (joined' = {} /\ youtubeLiveChatId' = Null /\ timers' = {})]_vars

\* C19: the result of a fetch is applied only to the feed it was issued on.
\* When the session has torn that feed down and another feed is attached, and
\* its interval the only one scheduled, by the time the result arrives, an
\* ended report leaves the attached feed's handle and interval alone, and a
\* successful result emits nothing and leaves the watermark alone.
C19_ResultAppliedToOwnFeedOnly ==
    /\ [][(lastOp'.op = "feedEnded" /\ youtubeLiveChatId # Null
            /\ timers = {youtubeInterval} /\ lastOp'.feed # youtubeLiveChatId) =>
            UNCHANGED <<youtubeLiveChatId, timers>>]_vars
    /\ [][(lastOp'.op = "batch" /\ youtubeLiveChatId # Null
            /\ timers = {youtubeInterval} /\ lastOp'.feed # youtubeLiveChatId) =>
            (emitted' = <<>> /\ UNCHANGED lastYoutubeCheck)]_vars

\* C20: no item is lost by the watermark filter. During the first attachment
\* of a feed (one interval was ever scheduled, no start handler is suspended),
\* every item of a successfully fetched batch of the attached feed has been
\* forwarded once the batch is processed, also when its publish time equals
\* that of the last item of an earlier batch. Under SpecAttached every item
\* of the feed was published after the feed was attached.
C20_NoItemLost ==
    [][(lastOp'.op = "batch" /\ lastOp'.feed = youtubeLiveChatId
        /\ timersMade = 1 /\ starts = EmptyBag) =>
        LET batch == Window(lastOp'.feed, lastOp'.k)
        IN \A j \in 1..Len(batch) : <<batch[j].feed, batch[j].idx>> \in forwarded']_vars
====
